---- MODULE Spec2Model ----
(***************************************************************************)
(* css-seasoning: the selector / custom-property rewrite engine of         *)
(* src/src/transformer.ts, driven the way the CSS engine drives it: one    *)
(* Selector callback per selector and one DashedIdent callback per custom  *)
(* property, in visit order, inside one transform invocation.              *)
(*                                                                         *)
(* A string is a sequence of one-character strings.  A conversion table is *)
(* a function from escaped keys to escaped values (own properties only:    *)
(* the names of the model are not member names of Object.prototype).       *)
(***************************************************************************)
EXTENDS Integers, Sequences, FiniteSets, TLC

\* ------------------------------------------------------------------ bounds
MaxEvents == 2      \* selectors and custom properties visited per stylesheet
MaxRuns == 2        \* transform invocations in one behaviour

\* ----------------------------------------------------------------- strings
Letters ==
  << "a", "b", "c", "d", "e", "f", "g", "h", "i", "j", "k", "l", "m",
     "n", "o", "p", "q", "r", "s", "t", "u", "v", "w", "x", "y", "z" >>

IdentChars == { Letters[i] : i \in 1..26 } \cup { "-", "_", "0", "1" }

Sigils == { ".", "#" }

RECURSIVE cssEscape(_)
\* utils.ts cssEscape: every character that is not an identifier character
\* is preceded by a backslash (".test" is stored as "\.test").
cssEscape(s) ==
  IF s = << >> THEN << >>
  ELSE (IF Head(s) \in IdentChars THEN << Head(s) >> ELSE << "\\", Head(s) >>)
       \o cssEscape(Tail(s))

RECURSIVE cssUnescape(_)
\* utils.ts cssUnescape: a backslash is dropped and the character after it
\* is kept as it is.
cssUnescape(s) ==
  IF s = << >> THEN << >>
  ELSE IF Head(s) = "\\"
       THEN (IF Len(s) = 1 THEN << >>
             ELSE << s[2] >> \o cssUnescape(Tail(Tail(s))))
       ELSE << Head(s) >> \o cssUnescape(Tail(s))

RECURSIVE numberToLetters(_)
\* utils.ts numberToLetters: bijective base 26, 0 -> a, 25 -> z, 26 -> aa.
numberToLetters(n) ==
  IF n < 26 THEN << Letters[n + 1] >>
  ELSE numberToLetters((n \div 26) - 1) \o << Letters[(n % 26) + 1] >>

HashChar(c) == IF c = "." THEN "0" ELSE IF c = "#" THEN "1" ELSE c

\* utils.ts generateHash: a pure function of (value, seed) that yields
\* identifier characters only; an absent seed is the fixed default 0.
generateHash(value, seed) ==
  << "h", (IF seed = 1 THEN "1" ELSE "0") >>
    \o [i \in 1..Len(value) |-> HashChar(value[i])]

\* utils.ts stringSeedToNumber: a stable reduction of the seed text to a
\* number, the same number for the same text.
stringSeedToNumber(text) == Len(text) % 2

IsPrefixAt(p, s, k) ==
  /\ k + Len(p) - 1 <= Len(s)
  /\ \A i \in 1..Len(p) : s[k + i - 1] = p[i]

\* One pattern against one name, with the search semantics of RegExp.test:
\* a leading "^" anchors the rest at the start, otherwise the pattern may
\* occur anywhere in the name.
MatchesPattern(name, pattern) ==
  IF pattern # << >> /\ Head(pattern) = "^"
  THEN IsPrefixAt(Tail(pattern), name, 1)
  ELSE \E k \in 1..(Len(name) + 1) : IsPrefixAt(pattern, name, k)

\* utils.ts matchesAnyPattern
matchesAnyPattern(name, patterns) ==
  \E i \in DOMAIN patterns : MatchesPattern(name, patterns[i])

\* -------------------------------------------------------------- components
\* A selector is a sequence of components; every component has the same
\* four fields.  "selectors" holds the nested selector list of not / where /
\* is / any / has, the argument of host (one selector, absent when empty)
\* and the "of" list of nth-child / nth-last-child.
Component(t, k, n, ss) == [type |-> t, kind |-> k, name |-> n, selectors |-> ss]

Class(n) == Component("class", "", n, << >>)
Id(n) == Component("id", "", n, << >>)
Type(n) == Component("type", "", n, << >>)
Combinator(v) == Component("combinator", v, << >>, << >>)
PseudoClass(k, ss) == Component("pseudo-class", k, << >>, ss)

SigilOf(component) == IF component.type = "id" THEN "#" ELSE "."

\* The name of a class or id component of a shape that has no sigil+name
\* text form.
NoName == << "undefined" >>

\* utils.ts stringifySelectorComponent: the sigil followed by the name, and
\* no text for a component that has no such form.
stringifySelectorComponent(component) ==
  IF component.name = NoName THEN << >>
  ELSE << SigilOf(component) >> \o component.name

NoComponent == Component("", "", << >>, << >>)

RECURSIVE ParseFrom(_, _, _, _)
\* Reads s from position i on; cur is the component being read (NoComponent
\* when none), acc the components read so far.
ParseFrom(s, i, cur, acc) ==
  LET flush == IF cur = NoComponent THEN acc ELSE Append(acc, cur)
  IN IF i > Len(s) THEN flush
     ELSE IF s[i] = "." THEN ParseFrom(s, i + 1, Class(<< >>), flush)
     ELSE IF s[i] = "#" THEN ParseFrom(s, i + 1, Id(<< >>), flush)
     ELSE IF s[i] = " "
          THEN ParseFrom(s, i + 1, NoComponent,
                         Append(flush, Combinator("descendant")))
     ELSE IF cur = NoComponent
          THEN ParseFrom(s, i + 1, Type(<< s[i] >>), acc)
          ELSE ParseFrom(s, i + 1, [cur EXCEPT !.name = Append(@, s[i])], acc)

\* utils.ts parseSelectorComponent: the text of one selector read back into
\* its components ("." starts a class, "#" an id, a blank is the descendant
\* combinator).
parseSelectorComponent(s) == ParseFrom(s, 1, NoComponent, << >>)

\* ------------------------------------------------------------------- state
VARIABLES
  props,                    \* the parameters every invocation is called with
  css,                      \* the stylesheet: its visits, in engine order
  run,                      \* number of the current transform invocation
  pc,                       \* "idle", "visiting", "returned" or "thrown"
  pos,                      \* visits of css handled by this invocation
  selectorConversionTable,  \* selector table of this invocation
  identConversionTable,     \* ident table of this invocation
  minimalCounter,           \* minimalCounter of every conversion closure
  output,                   \* what the callbacks handed back, in visit order
  call,                     \* how this invocation was called
  history                   \* the results of the invocations that returned

vars ==
  << props, css, run, pc, pos, selectorConversionTable, identConversionTable,
     minimalCounter, output, call, history >>

\* ------------------------------------------------------ conversion tables
EmptyTable == [k \in { } |-> << >>]

\* if (conversionTable[escaped]): the key is present and its value is not
\* the empty string.
TableHas(table, key) == key \in DOMAIN table /\ table[key] # << >>

\* The assignment made to a new object that holds the one entry.
TableSet_replaces(table, key, value) == [k \in { key } |-> value]

\* conversionTable[escaped] = value
TableSet(table, key, value) ==
  [k \in DOMAIN table \cup { key } |-> IF k = key THEN value ELSE table[k]]

\* ------------------------------------------------------------- parameters
Undefined == << "undefined" >>
UndefinedList == << Undefined >>

AffixString(s) ==
  [form |-> "string", value |-> s, selectors |-> Undefined, idents |-> Undefined]
AffixUndefined ==
  [form |-> "undefined", value |-> Undefined, selectors |-> Undefined,
   idents |-> Undefined]
AffixStruct(sel, id) ==
  [form |-> "struct", value |-> Undefined, selectors |-> sel, idents |-> id]

\* value || defaultValue, value ?? defaultValue
OrDefault(value, defaultValue) ==
  IF value = Undefined \/ value = << >> THEN defaultValue ELSE value
Coalesce(value, defaultValue) ==
  IF value = Undefined THEN defaultValue ELSE value

\* normalizeAffixOptions with the selectors field of a structure used for
\* both targets.
normalizeAffixOptions_selectorsForBoth(value) ==
  IF value.form \in { "string", "undefined" }
  THEN [selectors |-> OrDefault(value.value, << >>),
        idents |-> OrDefault(value.value, << >>)]
  ELSE [selectors |-> Coalesce(value.selectors, << >>),
        idents |-> Coalesce(value.selectors, << >>)]

normalizeAffixOptions(value) ==
  IF value.form \in { "string", "undefined" }
  THEN [selectors |-> OrDefault(value.value, << >>),
        idents |-> OrDefault(value.value, << >>)]
  ELSE [selectors |-> Coalesce(value.selectors, << >>),
        idents |-> Coalesce(value.idents, << >>)]

PatternsUndefined ==
  [form |-> "undefined", list |-> UndefinedList, selectors |-> UndefinedList,
   idents |-> UndefinedList]
PatternsArray(l) ==
  [form |-> "array", list |-> l, selectors |-> UndefinedList,
   idents |-> UndefinedList]
PatternsObject(sel, id) ==
  [form |-> "object", list |-> UndefinedList, selectors |-> sel, idents |-> id]

\* INTERNAL_buildVisitor: the pattern list of each domain
selectorPatterns(ignorePatterns) ==
  IF ignorePatterns.form = "array" THEN ignorePatterns.list
  ELSE IF ignorePatterns.form = "object" THEN ignorePatterns.selectors
  ELSE UndefinedList

\* identPatterns taken from the selectors field of a structure.
identPatterns_likeSelectors(ignorePatterns) ==
  IF ignorePatterns.form = "array" THEN ignorePatterns.list
  ELSE IF ignorePatterns.form = "object" THEN ignorePatterns.selectors
  ELSE UndefinedList

identPatterns(ignorePatterns) ==
  IF ignorePatterns.form = "array" THEN ignorePatterns.list
  ELSE IF ignorePatterns.form = "object" THEN ignorePatterns.idents
  ELSE UndefinedList

\* patterns && matchesAnyPattern(name, patterns)
IsIgnored(name, patterns) ==
  patterns # UndefinedList /\ matchesAnyPattern(name, patterns)

\* The seed parameter: a number or a text.
SeedNumber(n) == [type |-> "number", number |-> n, text |-> << >>]
SeedText(s) == [type |-> "string", number |-> 0, text |-> s]

\* typeof seed === "string" ? stringSeedToNumber(seed) : seed
numericSeed(seed) ==
  IF seed.type = "string" THEN stringSeedToNumber(seed.text) ELSE seed.number

\* The switch over mode with a default that falls into case "hash".
ValidModes_withDefault == { "hash", "minimal", "debug", "other" }

ValidModes == { "hash", "minimal", "debug" }

\* ----------------------------------------------------- conversion function
\* createConversionFunction with minimalCounter++ ahead of the table lookup:
\* a lookup that hits an entry advances the counter too.
createConversionFunction_countsHits(mode, debugSymbol, prefix, suffix, seed, value, conversionTable, counter, hook) ==
  LET escaped == cssEscape(value)
      newVal ==
        IF mode = "minimal" THEN prefix \o numberToLetters(counter) \o suffix
        ELSE IF mode = "debug" THEN debugSymbol \o prefix \o value \o suffix
        ELSE prefix \o generateHash(value, seed) \o suffix
      valueToSave == IF hook THEN << Head(value) >> \o newVal ELSE newVal
      counted == IF mode = "minimal" THEN counter + 1 ELSE counter
  IN IF TableHas(conversionTable, escaped)
     THEN [value |-> conversionTable[escaped],
           table |-> conversionTable,
           counter |-> counted]
     ELSE [value |-> newVal,
           table |-> TableSet(conversionTable, escaped, cssEscape(valueToSave)),
           counter |-> counted]

\* createConversionFunction with the debug name built as prefix + debugSymbol
\* + value + suffix.
createConversionFunction_prefixFirst(mode, debugSymbol, prefix, suffix, seed, value, conversionTable, counter, hook) ==
  LET escaped == cssEscape(value)
      newVal ==
        IF mode = "minimal" THEN prefix \o numberToLetters(counter) \o suffix
        ELSE IF mode = "debug" THEN prefix \o debugSymbol \o value \o suffix
        ELSE prefix \o generateHash(value, seed) \o suffix
      valueToSave == IF hook THEN << Head(value) >> \o newVal ELSE newVal
  IN IF TableHas(conversionTable, escaped)
     THEN [value |-> conversionTable[escaped],
           table |-> conversionTable,
           counter |-> counter]
     ELSE [value |-> newVal,
           table |-> TableSet(conversionTable, escaped, cssEscape(valueToSave)),
           counter |-> IF mode = "minimal" THEN counter + 1 ELSE counter]

\* createConversionFunction with a hash that also takes in how many names the
\* table holds.
createConversionFunction_hashByOrder(mode, debugSymbol, prefix, suffix, seed, value, conversionTable, counter, hook) ==
  LET escaped == cssEscape(value)
      newVal ==
        IF mode = "minimal" THEN prefix \o numberToLetters(counter) \o suffix
        ELSE IF mode = "debug" THEN debugSymbol \o prefix \o value \o suffix
        ELSE prefix \o generateHash(value, seed)
               \o numberToLetters(Cardinality(DOMAIN conversionTable)) \o suffix
      valueToSave == IF hook THEN << Head(value) >> \o newVal ELSE newVal
  IN IF TableHas(conversionTable, escaped)
     THEN [value |-> conversionTable[escaped],
           table |-> conversionTable,
           counter |-> counter]
     ELSE [value |-> newVal,
           table |-> TableSet(conversionTable, escaped, cssEscape(valueToSave)),
           counter |-> IF mode = "minimal" THEN counter + 1 ELSE counter]

\* The closure createConversionFunction(mode, debugSymbol, prefix, suffix,
\* seed) returns, applied to (value, conversionTable) with the closure's
\* minimalCounter; hook tells whether onNewValueBeforeAdd is passed (the
\* selector walker's hook puts the sigil of the original value in front).
\* The result is the returned string, the table and the counter afterwards.
createConversionFunction(mode, debugSymbol, prefix, suffix, seed, value, conversionTable, counter, hook) ==
  LET escaped == cssEscape(value)
      newVal ==
        IF mode = "minimal" THEN prefix \o numberToLetters(counter) \o suffix
        ELSE IF mode = "debug" THEN debugSymbol \o prefix \o value \o suffix
        ELSE prefix \o generateHash(value, seed) \o suffix
      valueToSave == IF hook THEN << Head(value) >> \o newVal ELSE newVal
  IN IF TableHas(conversionTable, escaped)
     THEN [value |-> conversionTable[escaped],
           table |-> conversionTable,
           counter |-> counter]
     ELSE [value |-> newVal,
           table |-> TableSet(conversionTable, escaped, cssEscape(valueToSave)),
           counter |-> IF mode = "minimal" THEN counter + 1 ELSE counter]

\* The closures one invocation creates: transform of src/src/transformer.ts
\* creates one per target, transform of src/unnamed/part_001 creates a single
\* convertFunc that serves both targets.
SplitClosures == { "selectorConvertFunc", "identConvertFunc" }

\* part_001 with one closure per target.
SharedClosures_perTarget == { "selectorConvertFunc", "identConvertFunc" }

SharedClosures == { "convertFunc" }

\* The visitor built with the selector closure in both places.
ClosureOf_oneForBoth(target) ==
  IF "convertFunc" \in DOMAIN minimalCounter THEN "convertFunc"
  ELSE "selectorConvertFunc"

\* The closure the visitor uses for a target.
ClosureOf(target) ==
  IF "convertFunc" \in DOMAIN minimalCounter THEN "convertFunc"
  ELSE IF target = "selectors" THEN "selectorConvertFunc"
  ELSE "identConvertFunc"

\* The closure of one target applied to (value, table, counter).
Convert(target, value, conversionTable, counter, hook) ==
  createConversionFunction(props.mode, props.debugSymbol,
                           normalizeAffixOptions(props.prefix)[target],
                           normalizeAffixOptions(props.suffix)[target],
                           numericSeed(props.seed), value, conversionTable,
                           counter, hook)

\* ------------------------------------------------------- selector walker
\* The state a walk threads through its calls: the selector table, the
\* minimalCounter of the selector closure and whether an error was thrown.
WalkState(table, counter) ==
  [table |-> table, counter |-> counter, thrown |-> FALSE]

\* throw new Error("Unhandled component stringify: ..."): the walk is over,
\* the table and the counter stay as they are at this point.
Thrown(st) == [st EXCEPT !.thrown = TRUE]

\* The conv argument with the closure called without onNewValueBeforeAdd.
SelectorConv_noHook(value, st) ==
  LET escapedValue == cssEscape(value)
  IN IF TableHas(st.table, escapedValue)
     THEN [isString |-> FALSE, string |-> << >>,
           selector |-> parseSelectorComponent(cssUnescape(st.table[escapedValue])),
           st |-> st]
     ELSE LET r == Convert("selectors", value, st.table, st.counter, FALSE)
          IN [isString |-> TRUE, string |-> r.value, selector |-> << >>,
              st |-> WalkState(r.table, r.counter)]

\* The conv argument the Selector callback passes to the walker: a table hit
\* is reparsed into components, a miss goes to the selector closure.
SelectorConv(value, st) ==
  LET escapedValue == cssEscape(value)
  IN IF TableHas(st.table, escapedValue)
     THEN [isString |-> FALSE, string |-> << >>,
           selector |-> parseSelectorComponent(cssUnescape(st.table[escapedValue])),
           st |-> st]
     ELSE LET r == Convert("selectors", value, st.table, st.counter, TRUE)
          IN [isString |-> TRUE, string |-> r.value, selector |-> << >>,
              st |-> WalkState(r.table, r.counter)]

PassThroughTypes ==
  { "universal", "attribute", "combinator", "namespace", "nesting",
    "pseudo-element", "type" }

PassThroughKinds ==
  { "disabled", "hover", "custom", "root", "focus", "focus-within",
    "focus-visible", "last-child", "first-child" }

NthKinds == { "nth-child", "nth-last-child" }
ListKinds == { "not", "where", "is", "any", "has" }

ComponentFields == { "type", "kind", "name", "selectors" }

\* utils.ts isNArray(s, 2) for the list the walker builds: every entry is an
\* array whose elements are components and no arrays.  What
\* INTERNAL_handleSelector returns is flattened (flat(3)), so every entry is
\* one.
isNArray2(s) ==
  \A i \in DOMAIN s : \A j \in DOMAIN s[i] : DOMAIN s[i][j] = ComponentFields

RECURSIVE Flat(_)
\* Array.prototype.flat over a list of component lists
Flat(s) == IF s = << >> THEN << >> ELSE Head(s) \o Flat(Tail(s))

\* What one step of the map leaves: result is what the callback returns for
\* the component (flattened), component the component object after the
\* assignments made to it, st the table and counter afterwards.
Walked(result, component, st) ==
  [result |-> result, component |-> component, st |-> st]

RECURSIVE INTERNAL_handleSelector(_, _)
RECURSIVE HandleEach(_, _)
RECURSIVE HandleComponent(_, _)

\* case "id", case "class" without the test of the ignore patterns.
HandleName_noIgnore(component, st) ==
  LET componentWithType == stringifySelectorComponent(component)
      convertedSelector == SelectorConv(componentWithType, st)
      str == convertedSelector.string
      renamed ==
        [component EXCEPT !.name =
           IF str # << >> /\ Head(str) \in Sigils THEN Tail(str) ELSE str]
  IN IF componentWithType = << >>
     THEN Walked(<< >>, component, Thrown(st))
     ELSE IF convertedSelector.isString
     THEN Walked(<< renamed >>, renamed, convertedSelector.st)
     ELSE Walked(convertedSelector.selector, component, convertedSelector.st)

\* case "id", case "class" with an ignored component taking a number of the
\* counter.
HandleName_ignoredCounts(component, st) ==
  LET componentWithType == stringifySelectorComponent(component)
      selectorName == Tail(componentWithType)
      patterns == selectorPatterns(props.ignorePatterns)
  IN IF componentWithType = << >>
     THEN Walked(<< >>, component, Thrown(st))
     ELSE IF IsIgnored(selectorName, patterns)
     THEN Walked(<< component >>, component, WalkState(st.table, st.counter + 1))
     ELSE LET convertedSelector == SelectorConv(componentWithType, st)
              str == convertedSelector.string
              renamed ==
                [component EXCEPT !.name =
                   IF str # << >> /\ Head(str) \in Sigils THEN Tail(str)
                   ELSE str]
          IN IF convertedSelector.isString
             THEN Walked(<< renamed >>, renamed, convertedSelector.st)
             ELSE Walked(convertedSelector.selector, component,
                         convertedSelector.st)

\* case "id", case "class" with a component that has no text form returned
\* as it is.
HandleName_skipsUnnamed(component, st) ==
  LET componentWithType == stringifySelectorComponent(component)
      selectorName == Tail(componentWithType)
      patterns == selectorPatterns(props.ignorePatterns)
  IN IF componentWithType = << >>
     THEN Walked(<< component >>, component, st)
     ELSE IF IsIgnored(selectorName, patterns)
     THEN Walked(<< component >>, component, st)
     ELSE LET convertedSelector == SelectorConv(componentWithType, st)
              str == convertedSelector.string
              renamed ==
                [component EXCEPT !.name =
                   IF str # << >> /\ Head(str) \in Sigils THEN Tail(str)
                   ELSE str]
          IN IF convertedSelector.isString
             THEN Walked(<< renamed >>, renamed, convertedSelector.st)
             ELSE Walked(convertedSelector.selector, component,
                         convertedSelector.st)

\* case "id", case "class"
HandleName(component, st) ==
  LET componentWithType == stringifySelectorComponent(component)
      selectorName == Tail(componentWithType)
      patterns == selectorPatterns(props.ignorePatterns)
  IN IF componentWithType = << >>
     THEN Walked(<< >>, component, Thrown(st))
     ELSE IF IsIgnored(selectorName, patterns)
     THEN Walked(<< component >>, component, st)
     ELSE LET convertedSelector == SelectorConv(componentWithType, st)
              str == convertedSelector.string
              renamed ==
                [component EXCEPT !.name =
                   IF str # << >> /\ Head(str) \in Sigils THEN Tail(str)
                   ELSE str]
          IN IF convertedSelector.isString
             THEN Walked(<< renamed >>, renamed, convertedSelector.st)
             ELSE Walked(convertedSelector.selector, component,
                         convertedSelector.st)

\* case "nth-child", case "nth-last-child" with the node replaced by what
\* the walks of the "of" list return.
HandleNth_returnsResult(component, st) ==
  LET r == HandleEach(component.selectors, st)
      walked == [component EXCEPT !.selectors = r.selectors]
  IN Walked(Flat(r.results), walked, r.st)

\* case "nth-child", case "nth-last-child": the "of" list is walked and what
\* the walks return is dropped.
HandleNth(component, st) ==
  LET r == HandleEach(component.selectors, st)
      walked == [component EXCEPT !.selectors = r.selectors]
  IN Walked(<< walked >>, walked, r.st)

\* case "host": the argument is walked and what the walk returns is dropped.
HandleHost(component, st) ==
  IF component.selectors = << >>
  THEN Walked(<< component >>, component, st)
  ELSE LET r == INTERNAL_handleSelector(component.selectors[1], st)
           walked == [component EXCEPT !.selectors = << r.selector >>]
       IN Walked(<< walked >>, walked, r.st)

\* case "not", "where", "is", "any", "has" handled the way "host" is: the
\* list is walked and what the walks return is dropped.
HandleList_dropsResult(component, st) ==
  LET r == HandleEach(component.selectors, st)
      walked == [component EXCEPT !.selectors = r.selectors]
  IN Walked(<< walked >>, walked, r.st)

\* case "not", "where", "is", "any", "has"
HandleList(component, st) ==
  LET r == HandleEach(component.selectors, st)
      s == r.results
      kept == [component EXCEPT !.selectors = s]
      walked == [component EXCEPT !.selectors = r.selectors]
  IN IF isNArray2(s)
     THEN Walked(<< kept >>, kept, r.st)
     ELSE Walked(Flat(s), walked, r.st)

\* The callback of selector.map with case "type" falling into case "class".
HandleComponent_renamesType(component, st) ==
  IF component.type \in PassThroughTypes \ { "type" }
  THEN Walked(<< component >>, component, st)
  ELSE IF component.type \in { "id", "class", "type" }
  THEN HandleName(component, st)
  ELSE IF component.type = "pseudo-class"
  THEN (IF component.kind \in PassThroughKinds
        THEN Walked(<< component >>, component, st)
        ELSE IF component.kind \in NthKinds THEN HandleNth(component, st)
        ELSE IF component.kind = "host" THEN HandleHost(component, st)
        ELSE IF component.kind \in ListKinds THEN HandleList(component, st)
        ELSE Walked(<< component >>, component, st))
  ELSE Walked(<< component >>, component, st)

\* The callback of selector.map with both default cases throwing an error.
HandleComponent_unhandledThrows(component, st) ==
  IF component.type \in PassThroughTypes
  THEN Walked(<< component >>, component, st)
  ELSE IF component.type \in { "id", "class" }
  THEN HandleName(component, st)
  ELSE IF component.type = "pseudo-class"
  THEN (IF component.kind \in PassThroughKinds
        THEN Walked(<< component >>, component, st)
        ELSE IF component.kind \in NthKinds THEN HandleNth(component, st)
        ELSE IF component.kind = "host" THEN HandleHost(component, st)
        ELSE IF component.kind \in ListKinds THEN HandleList(component, st)
        ELSE Walked(<< >>, component, Thrown(st)))
  ELSE Walked(<< >>, component, Thrown(st))

\* The callback of selector.map: one component.
HandleComponent(component, st) ==
  IF component.type \in PassThroughTypes
  THEN Walked(<< component >>, component, st)
  ELSE IF component.type \in { "id", "class" }
  THEN HandleName(component, st)
  ELSE IF component.type = "pseudo-class"
  THEN (IF component.kind \in PassThroughKinds
        THEN Walked(<< component >>, component, st)
        ELSE IF component.kind \in NthKinds THEN HandleNth(component, st)
        ELSE IF component.kind = "host" THEN HandleHost(component, st)
        ELSE IF component.kind \in ListKinds THEN HandleList(component, st)
        ELSE Walked(<< component >>, component, st))
  ELSE Walked(<< component >>, component, st)

\* selectors.map(sel => INTERNAL_handleSelector(sel, ...)): results is the
\* mapped list, selectors the walked list itself after the walks.
HandleEach(selectors, st) ==
  IF selectors = << >> \/ st.thrown
  THEN [results |-> << >>, selectors |-> selectors, st |-> st]
  ELSE LET h == INTERNAL_handleSelector(Head(selectors), st)
           t == HandleEach(Tail(selectors), h.st)
       IN [results |-> << h.result >> \o t.results,
           selectors |-> << h.selector >> \o t.selectors,
           st |-> t.st]

\* result is the flattened list the walker returns, selector the walked
\* selector itself after the walk.  Once an error is thrown no further
\* component is handled.
INTERNAL_handleSelector(selector, st) ==
  IF selector = << >> \/ st.thrown
  THEN [result |-> << >>, selector |-> selector, st |-> st]
  ELSE LET h == HandleComponent(Head(selector), st)
           t == INTERNAL_handleSelector(Tail(selector), h.st)
       IN [result |-> h.result \o t.result,
           selector |-> << h.component >> \o t.selector,
           st |-> t.st]

\* ---------------------------------------------------------------- visitor
\* Visitor.Selector
Selector(selector, st) == INTERNAL_handleSelector(selector, st)

Marker == << "-", "-" >>

\* Visitor.DashedIdent with the conversion made ahead of the ignore test.
DashedIdent_convertsFirst(ident, table, counter) ==
  LET value == SubSeq(ident, 3, Len(ident))
      r == Convert("idents", value, table, counter, FALSE)
  IN IF IsIgnored(value, identPatterns(props.ignorePatterns))
     THEN [value |-> ident, table |-> r.table, counter |-> r.counter]
     ELSE [value |-> Marker \o r.value, table |-> r.table,
           counter |-> r.counter]

\* Visitor.DashedIdent without ident.slice(2): the token goes to the closure
\* with its marker.
DashedIdent_keepsMarker(ident, table, counter) ==
  LET value == ident
  IN IF IsIgnored(SubSeq(ident, 3, Len(ident)), identPatterns(props.ignorePatterns))
     THEN [value |-> ident, table |-> table, counter |-> counter]
     ELSE LET r == Convert("idents", value, table, counter, FALSE)
          IN [value |-> Marker \o r.value, table |-> r.table,
              counter |-> r.counter]

\* Visitor.DashedIdent: the returned token, the ident table and the counter
\* of the ident closure afterwards.
DashedIdent(ident, table, counter) ==
  LET value == SubSeq(ident, 3, Len(ident))
  IN IF IsIgnored(value, identPatterns(props.ignorePatterns))
     THEN [value |-> ident, table |-> table, counter |-> counter]
     ELSE LET r == Convert("idents", value, table, counter, FALSE)
          IN [value |-> Marker \o r.value, table |-> r.table,
              counter |-> r.counter]

\* ----------------------------------------------------------------- inputs
x == << "x" >>
y == << "y" >>
bt == << "b", "t" >>

\* A selector of every component type and pseudo-class kind that needs no
\* handling.
Plain(t) == Component(t, "", x, << >>)

PassThroughSelector ==
  << Plain("universal"), Combinator("child"), Plain("nesting"),
     Plain("attribute"), Combinator("descendant"), Plain("namespace"), Type(x),
     PseudoClass("hover", << >>), PseudoClass("disabled", << >>),
     PseudoClass("custom", << >>), PseudoClass("root", << >>),
     PseudoClass("focus", << >>), PseudoClass("focus-within", << >>),
     PseudoClass("focus-visible", << >>), PseudoClass("first-child", << >>),
     PseudoClass("last-child", << >>), Plain("pseudo-element") >>

\* A selector with a component of a type and a pseudo-class of a kind the
\* walker has no case for, and with every kind of pseudo-class that owns a
\* selector list.
UnhandledSelector ==
  << Plain("future"), PseudoClass("lang", << >>),
     PseudoClass("is", << << Class(x) >> >>),
     PseudoClass("where", << << Class(x) >> >>),
     PseudoClass("any", << << Class(x) >> >>),
     PseudoClass("has", << << Class(x) >> >>) >>

\* A selector with an nth-child node that has an "of" list and an
\* nth-last-child node that has none.
NthSelector ==
  << Type(x), PseudoClass("nth-child", << << Class(x) >>, << Class(y) >> >>),
     PseudoClass("nth-last-child", << >>) >>

HostSelector == << PseudoClass("host", << << Class(x) >> >>) >>

\* One selector with the nodes whose nested selectors are walked for effect
\* and the components without a case of their own.
NestedSelector == NthSelector \o UnhandledSelector \o HostSelector

\* The selectors and custom properties a stylesheet is made of; the last
\* selector holds, in a nested list, a class without a text form.
SelectorPool ==
  { << Class(x) >>,
    PassThroughSelector,
    << Id(x), PseudoClass("hover", << >>), Combinator("child"), Class(bt) >>,
    << Class(x), PseudoClass("not", << << Class(y) >>, << Class(bt) >> >>) >>,
    NestedSelector,
    << Class(y), PseudoClass("not", << << Class(NoName) >> >>), Class(bt) >> }

IdentPool == { Marker \o x, Marker \o bt }

Table1(k, v) == [i \in { k } |-> v]
Table2(k1, v1, k2, v2) == [i \in { k1, k2 } |-> IF i = k1 THEN v1 ELSE v2]

Tables(sel, id) == [selectors |-> sel, idents |-> id]

\* The conversionTables a caller passes: none, a compound selector mapping
\* with an ident mapping, and entries for an ignored class and for a name
\* whose value is the empty string.
SeedTables ==
  { Tables(EmptyTable, EmptyTable),
    Tables(Table1(cssEscape(<< "." >> \o x),
                  << "\\", ".", "p", " ", "\\", "#", "q" >>),
           Table1(x, << "v" >>)),
    Tables(Table2(cssEscape(<< "." >> \o bt), << "\\", ".", "k" >>,
                  cssEscape(<< "." >> \o x), << >>),
           Table1(x, << >>)) }

NoIgnore == PatternsUndefined
IgnoreOptions ==
  { NoIgnore,
    PatternsArray(<< << "^", "b" >> >>),
    PatternsObject(<< << "^", "b" >> >>, UndefinedList),
    PatternsObject(UndefinedList, << << "^", "b" >> >>) }

Affix(p, s) == [prefix |-> p, suffix |-> s]
NoAffix == Affix(AffixUndefined, AffixUndefined)
AffixOptions ==
  { NoAffix,
    Affix(AffixString(<< "p" >>), AffixString(<< "z" >>)),
    Affix(AffixStruct(<< "s" >>, Undefined), AffixStruct(Undefined, << "i" >>)) }

\* A prefix for custom properties with a character that cssEscape escapes.
EscapedAffix == Affix(AffixStruct(Undefined, << "p", ":" >>), AffixUndefined)

Mode(m, seed) == [mode |-> m, seed |-> seed]
ModeOptions ==
  { Mode("minimal", SeedNumber(0)), Mode("debug", SeedNumber(0)),
    Mode("hash", SeedNumber(0)), Mode("hash", SeedText(<< "t" >>)) }

NoTables == Tables(EmptyTable, EmptyTable)

Props(m, a, ig, t) ==
  [mode |-> m.mode, seed |-> m.seed, debugSymbol |-> << "_" >>,
   prefix |-> a.prefix, suffix |-> a.suffix, ignorePatterns |-> ig,
   conversionTables |-> t]

\* The parameter records the invocations are called with: every mode with
\* every affix and a text seed in hash mode; minimal mode with a prefix that
\* needs escaping; in minimal mode a flat pattern
\* list with every seeded table and each pattern structure without tables;
\* hash mode with patterns and seeded tables; and an unknown mode.
PropsSet ==
  { Props(m, a, NoIgnore, NoTables) :
      m \in ModeOptions \ { Mode("hash", SeedText(<< "t" >>)) }, a \in AffixOptions }
  \cup
  { Props(Mode("hash", SeedText(<< "t" >>)), NoAffix, NoIgnore, NoTables) }
  \cup
  { Props(Mode("minimal", SeedNumber(0)), EscapedAffix, NoIgnore, NoTables) }
  \cup
  { Props(Mode("minimal", SeedNumber(0)), NoAffix, ig, t) :
      ig \in { NoIgnore, PatternsArray(<< << "^", "b" >> >>) }, t \in SeedTables }
  \cup
  { Props(Mode("minimal", SeedNumber(0)), NoAffix, ig, NoTables) : ig \in IgnoreOptions }
  \cup
  { Props(Mode("hash", SeedNumber(0)), NoAffix, PatternsArray(<< << "^", "b" >> >>), t) :
      t \in SeedTables \ { NoTables } }
  \cup
  { Props(Mode("other", SeedNumber(0)), NoAffix, NoIgnore, t) : t \in SeedTables }

\* part_001 knows neither the per-target affix structure nor the flat
\* pattern list.
LegacyPropsSet ==
  { p \in PropsSet :
      /\ p.prefix.form # "struct"
      /\ p.ignorePatterns.form # "array" }

\* ---------------------------------------------------------------- actions
InitWith(propsSet, closures) ==
  /\ props \in propsSet
  /\ css = << >>
  /\ run = 0
  /\ pc = "idle"
  /\ pos = 0
  /\ selectorConversionTable = EmptyTable
  /\ identConversionTable = EmptyTable
  /\ minimalCounter = [f \in closures |-> 0]
  /\ output = << >>
  /\ call = [tables |-> "none", selectors |-> EmptyTable, idents |-> EmptyTable]
  /\ history = << >>

Init == InitWith(PropsSet, SplitClosures)

InitShared == InitWith(LegacyPropsSet, SharedClosures)

\* The tables an invocation works on: conversionTables?.selectors ?? {} and
\* conversionTables?.idents ?? {}.  The first invocation gets the caller's
\* tables; a later one gets the tables the previous invocation returned
\* (reuse) or none.
TablesAtCall(reuse) ==
  IF run = 0 THEN props.conversionTables
  ELSE IF reuse THEN Tables(selectorConversionTable, identConversionTable)
  ELSE Tables(EmptyTable, EmptyTable)

HowCalled(reuse) ==
  IF run = 0
  THEN (IF props.conversionTables = Tables(EmptyTable, EmptyTable)
        THEN "omitted" ELSE "supplied")
  ELSE IF reuse THEN "reused" ELSE "omitted"

\* minimalCounter kept across invocations, as a counter declared outside
\* createConversionFunction would be.
NewCounters_kept == minimalCounter

\* The counters of the closures a new invocation creates.
NewCounters == [f \in DOMAIN minimalCounter |-> 0]

\* transform up to the engine call, with a known mode.
Transform ==
  /\ pc \in { "idle", "returned" }
  /\ run < MaxRuns
  /\ props.mode \in ValidModes
  /\ \E reuse \in (IF run = 0 THEN { TRUE } ELSE BOOLEAN) :
       /\ selectorConversionTable' = TablesAtCall(reuse).selectors
       /\ identConversionTable' = TablesAtCall(reuse).idents
       /\ call' = [tables |-> HowCalled(reuse),
                   selectors |-> TablesAtCall(reuse).selectors,
                   idents |-> TablesAtCall(reuse).idents]
  /\ minimalCounter' = NewCounters
  /\ run' = run + 1
  /\ pc' = "visiting"
  /\ pos' = 0
  /\ output' = << >>
  /\ UNCHANGED << props, css, history >>

\* transform with an unknown mode: createConversionFunction throws.
TransformThrows ==
  /\ pc \in { "idle", "returned" }
  /\ run < MaxRuns
  /\ props.mode \notin ValidModes
  /\ selectorConversionTable' = TablesAtCall(TRUE).selectors
  /\ identConversionTable' = TablesAtCall(TRUE).idents
  /\ call' = [tables |-> HowCalled(TRUE),
              selectors |-> TablesAtCall(TRUE).selectors,
              idents |-> TablesAtCall(TRUE).idents]
  /\ run' = run + 1
  /\ pc' = "thrown"
  /\ UNCHANGED << props, css, pos, minimalCounter, output, history >>

\* The visits the engine may make next: the first invocation reads a new
\* stylesheet, a later one reads the same stylesheet again.
NextVisits(pool, kind) ==
  IF run = 1
  THEN (IF Len(css) < MaxEvents
        THEN { [visit |-> kind, item |-> i] : i \in pool } ELSE { })
  ELSE (IF pos < Len(css) /\ css[pos + 1].visit = kind
        THEN { css[pos + 1] } ELSE { })

\* The visits the engine may make next when a later invocation is given the
\* stylesheet of the one before with more rules after them.
GrowingVisits(pool, kind) ==
  IF pos < Len(css)
  THEN (IF css[pos + 1].visit = kind THEN { css[pos + 1] } ELSE { })
  ELSE (IF Len(css) < MaxEvents
        THEN { [visit |-> kind, item |-> i] : i \in pool } ELSE { })

Visited(e) ==
  /\ css' = IF pos = Len(css) THEN Append(css, e) ELSE css
  /\ pos' = pos + 1

\* The engine calls Visitor.Selector on the next selector.  An error thrown
\* by the walker ends the invocation: transform returns nothing.
VisitSelector ==
  /\ pc = "visiting"
  /\ \E e \in NextVisits(SelectorPool, "Selector") :
       \E f \in { ClosureOf("selectors") } :
         \E r \in { Selector(e.item,
                              WalkState(selectorConversionTable, minimalCounter[f])) } :
           /\ selectorConversionTable' = r.st.table
           /\ minimalCounter' = [minimalCounter EXCEPT ![f] = r.st.counter]
           /\ IF r.st.thrown
              THEN /\ pc' = "thrown"
                   /\ css' = IF pos = Len(css) THEN Append(css, e) ELSE css
                   /\ UNCHANGED << pos, output >>
              ELSE /\ output' = Append(output, [visit |-> "Selector", item |-> r.result])
                   /\ Visited(e)
                   /\ pc' = pc
  /\ UNCHANGED << props, run, identConversionTable, call, history >>

\* The engine calls Visitor.DashedIdent on the next custom property.
VisitDashedIdent ==
  /\ pc = "visiting"
  /\ \E e \in NextVisits(IdentPool, "DashedIdent") :
       \E f \in { ClosureOf("idents") } :
         \E r \in { DashedIdent(e.item, identConversionTable, minimalCounter[f]) } :
           /\ identConversionTable' = r.table
           /\ minimalCounter' = [minimalCounter EXCEPT ![f] = r.counter]
           /\ output' = Append(output, [visit |-> "DashedIdent", item |-> r.value])
           /\ Visited(e)
  /\ UNCHANGED << props, run, pc, selectorConversionTable, call, history >>

\* Visitor.Selector called on the next selector of a stylesheet that grows
\* from one invocation to the next.
VisitSelectorGrowing ==
  /\ pc = "visiting"
  /\ \E e \in GrowingVisits(SelectorPool, "Selector") :
       \E f \in { ClosureOf("selectors") } :
         \E r \in { Selector(e.item,
                              WalkState(selectorConversionTable, minimalCounter[f])) } :
           /\ selectorConversionTable' = r.st.table
           /\ minimalCounter' = [minimalCounter EXCEPT ![f] = r.st.counter]
           /\ IF r.st.thrown
              THEN /\ pc' = "thrown"
                   /\ css' = IF pos = Len(css) THEN Append(css, e) ELSE css
                   /\ UNCHANGED << pos, output >>
              ELSE /\ output' = Append(output, [visit |-> "Selector", item |-> r.result])
                   /\ Visited(e)
                   /\ pc' = pc
  /\ UNCHANGED << props, run, identConversionTable, call, history >>

\* Visitor.DashedIdent called on the next custom property of a stylesheet
\* that grows from one invocation to the next.
VisitDashedIdentGrowing ==
  /\ pc = "visiting"
  /\ \E e \in GrowingVisits(IdentPool, "DashedIdent") :
       \E f \in { ClosureOf("idents") } :
         \E r \in { DashedIdent(e.item, identConversionTable, minimalCounter[f]) } :
           /\ identConversionTable' = r.table
           /\ minimalCounter' = [minimalCounter EXCEPT ![f] = r.counter]
           /\ output' = Append(output, [visit |-> "DashedIdent", item |-> r.value])
           /\ Visited(e)
  /\ UNCHANGED << props, run, pc, selectorConversionTable, call, history >>

\* The engine is through the stylesheet and transform returns css and
\* conversionTables.
Return ==
  /\ pc = "visiting"
  /\ run = 1 \/ pos = Len(css)
  /\ pc' = "returned"
  /\ history' = Append(history,
                       [css |-> output,
                        conversionTables |->
                          Tables(selectorConversionTable, identConversionTable),
                        call |-> call])
  /\ UNCHANGED << props, css, run, pos, selectorConversionTable,
                  identConversionTable, minimalCounter, output, call >>

Next ==
  \/ Transform
  \/ TransformThrows
  \/ VisitSelector
  \/ VisitDashedIdent
  \/ Return

Spec == Init /\ [][Next]_vars

SpecShared == InitShared /\ [][Next]_vars

\* Invocations in minimal mode, the first one without tables, on a stylesheet
\* that may have more rules at every invocation.
GrowingPropsSet ==
  { Props(Mode("minimal", SeedNumber(0)), NoAffix, ig, NoTables) :
      ig \in { NoIgnore, PatternsArray(<< << "^", "b" >> >>) } }

InitGrowing == InitWith(GrowingPropsSet, SplitClosures)

NextGrowing ==
  \/ Transform
  \/ VisitSelectorGrowing
  \/ VisitDashedIdentGrowing
  \/ Return

SpecGrowing == InitGrowing /\ [][NextGrowing]_vars

TypeOK ==
  /\ pc \in { "idle", "visiting", "returned", "thrown" }
  /\ run \in 0..MaxRuns
  /\ pos \in 0..MaxEvents
  /\ Len(css) <= MaxEvents
  /\ Len(output) = pos

\* ------------------------------------------------- vocabulary of the claims
RECURSIVE NamesWalk(_)
RECURSIVE NamesOfEach(_)
\* The class and id components of a selector in the order a left-to-right,
\* depth-first reading meets them, nested lists included.
NamesWalk(selector) ==
  IF selector = << >> THEN << >>
  ELSE (IF Head(selector).type \in { "id", "class" } THEN << Head(selector) >>
        ELSE NamesOfEach(Head(selector).selectors))
       \o NamesWalk(Tail(selector))

NamesOfEach(selectors) ==
  IF selectors = << >> THEN << >>
  ELSE NamesWalk(Head(selectors)) \o NamesOfEach(Tail(selectors))

\* NamesWalk of the selectors of the pool, computed once.
PoolNames == [s \in SelectorPool |-> NamesWalk(s)]

NamesOf(selector) ==
  IF selector \in SelectorPool THEN PoolNames[selector] ELSE NamesWalk(selector)

Count(seq, c) == Cardinality({ i \in DOMAIN seq : seq[i] = c })

KeyOf(component) == cssEscape(stringifySelectorComponent(component))

IgnoredName(component) ==
  IsIgnored(component.name, selectorPatterns(props.ignorePatterns))

IgnoredIdent(ident) ==
  IsIgnored(SubSeq(ident, 3, Len(ident)), identPatterns(props.ignorePatterns))

SelectorVisits == { i \in 1..pos : css[i].visit = "Selector" }
IdentVisits == { i \in 1..pos : css[i].visit = "DashedIdent" }

\* The visit, or what was handed back for it, is of a selector or is of a
\* custom property, and is the given one.
IsSelectorVisit(e, selector) == e.visit = "Selector" /\ e.item = selector
IsIdentVisit(e, ident) == e.visit = "DashedIdent" /\ e.item = ident

\* The step is a callback of the engine on visit pos + 1.
VisitStep == pc = "visiting" /\ pos' = pos + 1

\* The step leaves the invocation its tables: it is no call with other ones.
KeepsTables == run' = run \/ call'.tables = "reused"

FromEmpty(h) == h.call.tables = "omitted"

\* ------------------------------------------------------------------ claims
\* C1: two invocations on the same stylesheet with the same parameters that
\* both start from empty conversion tables return the same output and the
\* same selector and ident tables.
C1_Deterministic ==
  \A i, j \in DOMAIN history :
    FromEmpty(history[i]) /\ FromEmpty(history[j])
      => /\ history[i].css = history[j].css
         /\ history[i].conversionTables = history[j].conversionTables

C1_Witness ==
  /\ Len(history) = 2
  /\ FromEmpty(history[1]) /\ FromEmpty(history[2])
  /\ props.mode = "minimal"
  /\ Cardinality(DOMAIN history[2].conversionTables.selectors) >= 2
  /\ DOMAIN history[2].conversionTables.idents # { }

\* C2: an invocation that is given the tables the invocation before it
\* returned, that one having started from empty tables, returns the output
\* of the invocation before it.
C2_ReuseSameOutput ==
  \A j \in DOMAIN history :
    (j > 1 /\ FromEmpty(history[j - 1]) /\ history[j].call.tables = "reused")
      => history[j].css = history[j - 1].css

\* C3: a key that is in a conversion table keeps its value, whatever the
\* value is, through every conversion and into every invocation that reuses
\* the table.
C3_KeyKeepsValue ==
  [][KeepsTables =>
       /\ \A k \in DOMAIN selectorConversionTable :
            /\ k \in DOMAIN selectorConversionTable'
            /\ selectorConversionTable'[k] = selectorConversionTable[k]
       /\ \A k \in DOMAIN identConversionTable :
            /\ k \in DOMAIN identConversionTable'
            /\ identConversionTable'[k] = identConversionTable[k]]_vars

\* C4 as stated: an ignored class or id of a visited selector is emitted
\* unchanged and is no key of the selector table, also when the caller
\* seeded the table.
C4_IgnoredNeverKey ==
  \A i \in SelectorVisits :
    \A n \in DOMAIN NamesOf(css[i].item) :
      LET c == NamesOf(css[i].item)[n]
      IN IgnoredName(c)
           => /\ Count(NamesOf(output[i].item), c) >= Count(NamesOf(css[i].item), c)
              /\ KeyOf(c) \notin DOMAIN selectorConversionTable

\* C4 amended: an ignored class or id of a visited selector is emitted
\* unchanged and the invocation does not add it to the selector table or
\* touch an entry the caller seeded for it.
C4_IgnoredNeverAdded ==
  \A i \in SelectorVisits :
    \A n \in DOMAIN NamesOf(css[i].item) :
      LET c == NamesOf(css[i].item)[n]
      IN IgnoredName(c)
           => /\ Count(NamesOf(output[i].item), c) >= Count(NamesOf(css[i].item), c)
              /\ KeyOf(c) \in DOMAIN selectorConversionTable
                   => /\ KeyOf(c) \in DOMAIN call.selectors
                      /\ selectorConversionTable[KeyOf(c)] = call.selectors[KeyOf(c)]

C4_Witness ==
  /\ pc = "returned"
  /\ \E i \in SelectorVisits :
       /\ Class(bt) \in { NamesOf(css[i].item)[n] : n \in DOMAIN NamesOf(css[i].item) }
       /\ Class(bt) \in { NamesOf(output[i].item)[n] : n \in DOMAIN NamesOf(output[i].item) }
       /\ IgnoredName(Class(bt))
       /\ KeyOf(Id(x)) \in DOMAIN selectorConversionTable
       /\ KeyOf(Class(bt)) \in DOMAIN call.selectors

\* C5: DashedIdent on a token whose marker-stripped name is ignored returns
\* the token, and leaves the ident table and every minimalCounter as they
\* were.
C5_IgnoredIdentFrame ==
  [][(VisitStep /\ css'[pos'].visit = "DashedIdent" /\ IgnoredIdent(css'[pos'].item))
       => /\ output'[pos'].item = css'[pos'].item
          /\ identConversionTable' = identConversionTable
          /\ minimalCounter' = minimalCounter]_vars

C5_Witness ==
  /\ props.mode = "minimal"
  /\ FromEmpty([call |-> call])
  /\ pos = 2
  /\ IsIdentVisit(css[1], Marker \o bt)
  /\ IgnoredIdent(css[1].item)
  /\ IsIdentVisit(css[2], Marker \o x)
  /\ IsIdentVisit(output[1], Marker \o bt)
  /\ IsIdentVisit(output[2], Marker \o << "a" >>)
  /\ DOMAIN identConversionTable = { x }

\* What one closure was asked to convert: the target and the value passed.
Entry(t, v) == [target |-> t, value |-> v]

VisitEntries(e) ==
  IF e.visit = "Selector"
  THEN LET names == SelectSeq(NamesOf(e.item), LAMBDA c : ~IgnoredName(c))
       IN [n \in DOMAIN names |->
             Entry("selectors", stringifySelectorComponent(names[n]))]
  ELSE IF IgnoredIdent(e.item) THEN << >>
  ELSE << Entry("idents", SubSeq(e.item, 3, Len(e.item))) >>

RECURSIVE Encountered(_)
\* The non-ignored names of the first i visits, in the order met.
Encountered(i) ==
  IF i = 0 THEN << >> ELSE Encountered(i - 1) \o VisitEntries(css[i])

RECURSIVE Dedupe(_)
\* The sequence without the repetitions of an earlier element.
Dedupe(seq) ==
  IF seq = << >> THEN << >>
  ELSE LET front == Dedupe(SubSeq(seq, 1, Len(seq) - 1))
           last == seq[Len(seq)]
       IN IF \E k \in DOMAIN front : front[k] = last THEN front
          ELSE Append(front, last)

OfTarget(seq, t) == SelectSeq(seq, LAMBDA e : e.target = t)

IndexIn(seq, e) == CHOOSE k \in DOMAIN seq : seq[k] = e

AffixOf(t) ==
  [prefix |-> normalizeAffixOptions(props.prefix)[t],
   suffix |-> normalizeAffixOptions(props.suffix)[t]]

\* The name minimal mode gives at counter k.
MinimalName(t, k) == AffixOf(t).prefix \o numberToLetters(k) \o AffixOf(t).suffix

EntryKey(e) == cssEscape(e.value)

\* The table value of an entry renamed to name: selectors keep their sigil.
EntryValue(e, name) ==
  cssEscape((IF e.target = "selectors" THEN << Head(e.value) >> ELSE << >>)
            \o name)

TableOf(t) ==
  IF t = "selectors" THEN selectorConversionTable ELSE identConversionTable

InInvocation == pc \in { "visiting", "returned" }

\* The table of target t holds exactly the entries of order, the k-th of
\* them (from 0) named at counter k.
NumberedTable(t, order) ==
  /\ DOMAIN TableOf(t) =
       { EntryKey(order[k]) : k \in { k \in DOMAIN order : order[k].target = t } }
  /\ \A k \in DOMAIN order :
       order[k].target = t
         => TableOf(t)[EntryKey(order[k])]
              = EntryValue(order[k], MinimalName(t, k - 1))

NoNesting(selector) == \A i \in DOMAIN selector : selector[i].selectors = << >>

\* C6: in minimal mode from empty tables, the k-th distinct non-ignored name
\* one closure meets (k from 0) is named prefix + letters(k) + suffix; the
\* counter is the number of distinct names met, so a repeated name does not
\* advance it; and each occurrence of a class or id in a selector without
\* nested lists is emitted under that name.
C6_MinimalEnumeration ==
  (InInvocation /\ props.mode = "minimal" /\ call.tables = "omitted")
    => /\ numberToLetters(0) = << "a" >>
       /\ numberToLetters(25) = << "z" >>
       /\ numberToLetters(26) = << "a", "a" >>
       /\ \A t \in { "selectors", "idents" } :
         LET order == OfTarget(Dedupe(Encountered(pos)), t)
         IN /\ NumberedTable(t, order)
            /\ minimalCounter[ClosureOf(t)] = Len(order)
            /\ t = "selectors"
                 => \A i \in SelectorVisits :
                      NoNesting(css[i].item)
                        => output[i].item =
                             [n \in DOMAIN css[i].item |->
                                LET c == css[i].item[n]
                                IN IF c.type \in { "id", "class" } /\ ~IgnoredName(c)
                                   THEN [c EXCEPT !.name =
                                           MinimalName(t, IndexIn(order,
                                             Entry(t, stringifySelectorComponent(c))) - 1)]
                                   ELSE c]

C6_Witness ==
  /\ props.mode = "minimal" /\ call.tables = "omitted"
  /\ pos = 2
  /\ IsSelectorVisit(css[1],
         << Class(x), PseudoClass("not", << << Class(y) >>, << Class(bt) >> >>) >>)
  /\ IsSelectorVisit(css[2], << Class(x) >>)
  /\ IsSelectorVisit(output[2], << Class(<< "a" >>) >>)
  /\ minimalCounter["selectorConvertFunc"] = 3
  /\ selectorConversionTable[KeyOf(Class(bt))] = << "\\", ".", "c" >>

\* The first name of target t in the order met that the table the invocation
\* was called with does not hold.
NewEntries(t) ==
  SelectSeq(OfTarget(Dedupe(Encountered(pos)), t),
            LAMBDA e : ~TableHas(call[t], EntryKey(e)))

SeededCompound(c) ==
  /\ TableHas(call.selectors, KeyOf(c))
  /\ Len(parseSelectorComponent(cssUnescape(call.selectors[KeyOf(c)]))) > 1

\* C9: a class or id the caller's selector table maps to a value of several
\* components is replaced, at every occurrence in a visited selector, by the
\* components of the reparsed value, and the table entry stays as supplied.
C9_CompoundEverywhere ==
  \A i \in SelectorVisits :
    \A n \in DOMAIN NamesOf(css[i].item) :
      LET c == NamesOf(css[i].item)[n]
          parts == NamesOf(parseSelectorComponent(cssUnescape(call.selectors[KeyOf(c)])))
      IN (SeededCompound(c) /\ ~IgnoredName(c))
           => /\ Count(parts, c) = 0 => Count(NamesOf(output[i].item), c) = 0
              /\ \A m \in DOMAIN parts :
                   Count(NamesOf(output[i].item), parts[m])
                     >= Count(NamesOf(css[i].item), c)
              /\ selectorConversionTable[KeyOf(c)] = call.selectors[KeyOf(c)]

IsPrefixSeq(p, seq) == Len(p) <= Len(seq) /\ SubSeq(seq, 1, Len(p)) = p

\* The forms a class or id takes when it is renamed through the table: the
\* component under the mapped name, or the components the mapped value reads
\* back as.
RenamedForms(c) ==
  LET v == cssUnescape(selectorConversionTable[KeyOf(c)])
  IN { << [c EXCEPT !.name = Tail(v)] >>, parseSelectorComponent(v) }

RECURSIVE RenamedAs(_, _)
\* out is the selector in with every non-ignored class and id of it renamed
\* through the table and every other component without a nested list kept.
RenamedAs(in, out) ==
  IF in = << >> THEN out = << >>
  ELSE LET c == Head(in)
       IN IF c.type \in { "id", "class" } /\ ~IgnoredName(c)
          THEN /\ TableHas(selectorConversionTable, KeyOf(c))
               /\ \E form \in RenamedForms(c) :
                    /\ IsPrefixSeq(form, out)
                    /\ RenamedAs(Tail(in), SubSeq(out, Len(form) + 1, Len(out)))
          ELSE /\ out # << >>
               /\ c.selectors = << >> => Head(out) = c
               /\ RenamedAs(Tail(in), Tail(out))

ListNodes(selector) == SelectSeq(selector, LAMBDA c : c.kind \in ListKinds)

\* C10: a not / where / is / any / has node of a visited selector stays one
\* node of the result with its nested selectors in list order, each of them
\* with its non-ignored classes and ids renamed through the selector table.
C10_ListKept ==
  \A i \in SelectorVisits :
    LET in == ListNodes(css[i].item)
        out == ListNodes(output[i].item)
    IN /\ Len(out) = Len(in)
       /\ \A m \in DOMAIN in :
            /\ out[m].kind = in[m].kind
            /\ Len(out[m].selectors) = Len(in[m].selectors)
            /\ \A j \in DOMAIN in[m].selectors :
                 RenamedAs(in[m].selectors[j], out[m].selectors[j])

C10_Witness ==
  /\ props.mode = "minimal" /\ call.tables = "omitted"
  /\ props.prefix.form = "undefined" /\ props.ignorePatterns.form = "undefined"
  /\ pos = 2
  /\ IsSelectorVisit(css[1], << Class(x) >>)
  /\ IsSelectorVisit(css[2],
         << Class(x), PseudoClass("not", << << Class(y) >>, << Class(bt) >> >>) >>)
  /\ IsSelectorVisit(output[2],
         << Class(<< "a" >>),
           PseudoClass("not", << << Class(<< "b" >>) >>, << Class(<< "c" >>) >> >>) >>)
  /\ minimalCounter["selectorConvertFunc"] = 3

HostNodes(selector) == SelectSeq(selector, LAMBDA c : c.kind = "host")

\* C11: the argument of a :host(...) node of a visited selector is emitted
\* with its non-ignored classes and ids under the names the selector table
\* maps them to, whether the mapping is new or was in the table already, and
\* a :host node without an argument is emitted as it is.
C11_HostRenamed ==
  \A i \in SelectorVisits :
    LET in == HostNodes(css[i].item)
        out == HostNodes(output[i].item)
    IN /\ Len(out) = Len(in)
       /\ \A m \in DOMAIN in :
            IF in[m].selectors = << >> THEN out[m] = in[m]
            ELSE /\ Len(out[m].selectors) = 1
                 /\ RenamedAs(in[m].selectors[1], out[m].selectors[1])

\* The component is of a type, or is a pseudo-class of a kind, that is never
\* renamed.
NeedsNoHandling(c) ==
  \/ c.type \in { "universal", "attribute", "combinator", "namespace",
                  "nesting", "type", "pseudo-element" }
  \/ /\ c.type = "pseudo-class"
     /\ c.kind \in { "hover", "disabled", "custom", "root", "focus",
                     "focus-within", "focus-visible", "first-child",
                     "last-child" }

OnlyNoHandling(selector) == \A n \in DOMAIN selector : NeedsNoHandling(selector[n])

KeysOfNames(selector) ==
  { KeyOf(NamesOf(selector)[n]) : n \in DOMAIN NamesOf(selector) }

RECURSIVE SumOf(_)
SumOf(f) ==
  IF DOMAIN f = { } THEN 0
  ELSE LET k == CHOOSE k \in DOMAIN f : TRUE
       IN f[k] + SumOf([j \in DOMAIN f \ { k } |-> f[j]])

\* C12: the walk of a selector returns every component that needs no
\* handling as it is; the keys it writes in the selector table are keys of
\* the classes and ids of the selector and the counters advance by no more
\* than the keys written, so that a selector of such components only comes back
\* unchanged with table and counters untouched; and a stylesheet whose
\* selectors are all of this sort leaves an empty selector table empty.
C12_PassThroughFrame ==
  [][(VisitStep /\ css'[pos'].visit = "Selector")
       => LET sel == css'[pos'].item
              out == output'[pos'].item
              added ==
                { k \in DOMAIN selectorConversionTable' :
                    \/ k \notin DOMAIN selectorConversionTable
                    \/ selectorConversionTable'[k] # selectorConversionTable[k] }
          IN /\ \A n \in DOMAIN sel :
                  NeedsNoHandling(sel[n]) => Count(out, sel[n]) >= Count(sel, sel[n])
             /\ added \subseteq KeysOfNames(sel)
             /\ SumOf(minimalCounter') - SumOf(minimalCounter) <= Cardinality(added)
             /\ OnlyNoHandling(sel)
                  => /\ out = sel
                     /\ selectorConversionTable' = selectorConversionTable
                     /\ minimalCounter' = minimalCounter
             /\ (/\ call.tables = "omitted"
                 /\ \A i \in 1..pos' :
                      css'[i].visit = "Selector" => OnlyNoHandling(css'[i].item))
                  => selectorConversionTable' = EmptyTable]_vars

C12_Witness ==
  /\ pc = "returned"
  /\ props.mode = "minimal"
  /\ call.tables = "omitted"
  /\ pos = 2
  /\ IsSelectorVisit(css[1], PassThroughSelector)
  /\ IsIdentVisit(css[2], Marker \o x)
  /\ IsSelectorVisit(output[1], PassThroughSelector)
  /\ selectorConversionTable = EmptyTable
  /\ history[1].conversionTables.selectors = EmptyTable
  /\ minimalCounter = [f \in SplitClosures |-> IF f = "identConvertFunc" THEN 1 ELSE 0]

\* The name a closure of target t generates for value when its counter is k.
GeneratedName(t, value, k) ==
  IF props.mode = "minimal" THEN MinimalName(t, k)
  ELSE IF props.mode = "debug"
  THEN props.debugSymbol \o AffixOf(t).prefix \o value \o AffixOf(t).suffix
  ELSE AffixOf(t).prefix \o generateHash(value, numericSeed(props.seed))
         \o AffixOf(t).suffix

\* C13: DashedIdent on a token that is not ignored returns the marker
\* followed by the name the ident table maps the marker-stripped name to: the
\* value the table holds for it, or the generated name, stored escaped under
\* the escaped marker-stripped name, when the table has no such key; neither
\* that key nor its value starts with the marker, and the selector table is
\* left alone.
C13_DashedIdentMapped ==
  [][(VisitStep /\ css'[pos'].visit = "DashedIdent" /\ ~IgnoredIdent(css'[pos'].item))
       => LET ident == css'[pos'].item
              name == SubSeq(ident, 3, Len(ident))
              key == cssEscape(name)
              out == output'[pos'].item
              mapped == SubSeq(out, 3, Len(out))
          IN /\ IsPrefixSeq(Marker, out)
             /\ key \in DOMAIN identConversionTable'
             /\ ~TableHas(identConversionTable, key)
                  => identConversionTable'[key] = cssEscape(mapped)
             /\ TableHas(identConversionTable, key)
                  => /\ identConversionTable' = identConversionTable
                     /\ mapped = identConversionTable[key]
             /\ key \notin DOMAIN identConversionTable
                  => /\ mapped = GeneratedName("idents", name,
                                               minimalCounter[ClosureOf("idents")])
                     /\ identConversionTable'
                          = TableSet(identConversionTable, key, cssEscape(mapped))
             /\ ~IsPrefixSeq(Marker, key)
             /\ ~IsPrefixSeq(Marker, identConversionTable'[key])
             /\ selectorConversionTable' = selectorConversionTable]_vars

C13_Witness ==
  /\ props.mode = "minimal"
  /\ props.ignorePatterns = NoIgnore
  /\ call.tables = "omitted"
  /\ pos = 2
  /\ IsIdentVisit(css[1], Marker \o bt)
  /\ IsIdentVisit(css[2], Marker \o bt)
  /\ IsIdentVisit(output[1], Marker \o << "a" >>)
  /\ IsIdentVisit(output[2], Marker \o << "a" >>)
  /\ identConversionTable = Table1(bt, << "a" >>)

IsSubstring(p, seq) == \E k \in 1..(Len(seq) + 1) : IsPrefixAt(p, seq, k)

\* The name debug mode gives to value for target t.
DebugName(t, value) ==
  props.debugSymbol \o AffixOf(t).prefix \o value \o AffixOf(t).suffix

SeedValue ==
  IF props.seed.type = "string" THEN stringSeedToNumber(props.seed.text)
  ELSE props.seed.number

\* The name hash mode gives to value for target t.
HashName(t, value) ==
  AffixOf(t).prefix \o generateHash(value, SeedValue) \o AffixOf(t).suffix

Range(seq) == { seq[k] : k \in DOMAIN seq }

\* The keys of target t that were held, with a value, by the table an
\* invocation was called with.
Seeded(c, t) == { k \in DOMAIN c[t] : c[t][k] # << >> }

\* C15: in hash mode every name the invocation had to generate is stored
\* under prefix + hash(name, seed) + suffix, whatever was met before it, a
\* text seed standing for the number it reduces to; and two invocations
\* store the same value for every name that both of them generated.
C15_HashPure ==
  (InInvocation /\ props.mode = "hash")
    => /\ \A t \in { "selectors", "idents" } :
            LET entries == NewEntries(t)
            IN \A k \in DOMAIN entries :
                 TableOf(t)[EntryKey(entries[k])]
                   = EntryValue(entries[k], HashName(t, entries[k].value))
       /\ \A i, j \in DOMAIN history :
            \A t \in { "selectors", "idents" } :
              \A k \in (DOMAIN history[i].conversionTables[t]
                          \cap DOMAIN history[j].conversionTables[t]) :
                (k \notin Seeded(history[i].call, t) /\ k \notin Seeded(history[j].call, t))
                  => history[i].conversionTables[t][k]
                       = history[j].conversionTables[t][k]

C15_Witness ==
  /\ props.mode = "hash"
  /\ props.seed = SeedText(<< "t" >>)
  /\ props.prefix = AffixUndefined
  /\ Len(history) = 2
  /\ history[2].call.tables = "omitted"
  /\ Len(css) = 2
  /\ IsIdentVisit(css[1], Marker \o bt)
  /\ IsSelectorVisit(css[2], << Class(x) >>)
  /\ history[1].conversionTables.selectors[KeyOf(Class(x))]
       = << "\\", ".", "h", "1", "0", "x" >>
  /\ history[2].conversionTables.selectors[KeyOf(Class(x))]
       = << "\\", ".", "h", "1", "0", "x" >>
  /\ history[2].conversionTables.idents[bt] = << "h", "1", "b", "t" >>

\* The affix of target t an option stands for: a string for both targets, a
\* structure by its field of that target, and the empty string when the
\* option or the field is missing.
ResolvedAffix(option, t) ==
  IF option.form = "string" THEN option.value
  ELSE IF option.form = "undefined" THEN << >>
  ELSE IF option[t] = Undefined THEN << >>
  ELSE option[t]

\* The name generated for value with prefix p and suffix s at counter k.
NameWith(p, s, value, k) ==
  IF props.mode = "minimal" THEN p \o numberToLetters(k) \o s
  ELSE IF props.mode = "debug" THEN props.debugSymbol \o p \o value \o s
  ELSE p \o generateHash(value, SeedValue) \o s

\* C16: in every mode the names generated for a target carry the prefix and
\* the suffix resolved for that target and nothing of the other target's: a
\* string option counts for both targets, a structure by the field of the
\* target, a missing option or field as the empty string.
C16_AffixPerTarget ==
  (InInvocation /\ props.mode \in { "hash", "minimal", "debug" })
    => \A t \in { "selectors", "idents" } :
         LET entries == NewEntries(t)
             prefix == ResolvedAffix(props.prefix, t)
             suffix == ResolvedAffix(props.suffix, t)
         IN \A k \in DOMAIN entries :
              TableOf(t)[EntryKey(entries[k])]
                = EntryValue(entries[k],
                             NameWith(prefix, suffix, entries[k].value, k - 1))

C16_Witness ==
  /\ props.mode = "minimal"
  /\ props.prefix = AffixStruct(<< "s" >>, Undefined)
  /\ props.suffix = AffixStruct(Undefined, << "i" >>)
  /\ pos = 2
  /\ IsSelectorVisit(css[1], << Class(x) >>)
  /\ IsIdentVisit(css[2], Marker \o x)
  /\ IsSelectorVisit(output[1], << Class(<< "s", "a" >>) >>)
  /\ IsIdentVisit(output[2], Marker \o << "a", "i" >>)
  /\ selectorConversionTable = Table1(KeyOf(Class(x)), << "\\", ".", "s", "a" >>)
  /\ identConversionTable = Table1(x, << "a", "i" >>)

\* The name is ignored in a domain ("selectors" or "idents"): a flat list
\* counts for both domains, a structure by its list of that domain, and
\* without a list nothing is ignored.
IgnoredIn(name, domain) ==
  LET given == props.ignorePatterns
      list == IF given.form = "array" THEN given.list
              ELSE IF given.form = "object" THEN given[domain]
              ELSE UndefinedList
  IN /\ list # UndefinedList
     /\ \E k \in DOMAIN list : MatchesPattern(name, list[k])

\* The key was left to the caller: it is in the table only as the caller
\* supplied it.
LeftAlone(table, supplied, key) ==
  key \in DOMAIN table => (key \in DOMAIN supplied /\ table[key] = supplied[key])

\* C17: a class or id is ignored (emitted unchanged and left out of the
\* selector table) exactly when its name matches a pattern of the flat list
\* or of the selectors list of the structure, a custom property exactly when
\* its name matches a pattern of the flat list or of the idents list; every
\* other class, id and custom property goes through its table.
C17_IgnoreDomains ==
  \A i \in 1..pos :
    IF css[i].visit = "Selector"
    THEN LET in == NamesOf(css[i].item)
             out == NamesOf(output[i].item)
         IN \A n \in DOMAIN in :
              IF IgnoredIn(in[n].name, "selectors")
              THEN /\ Count(out, in[n]) >= Count(in, in[n])
                   /\ LeftAlone(selectorConversionTable, call.selectors, KeyOf(in[n]))
              ELSE TableHas(selectorConversionTable, KeyOf(in[n]))
    ELSE LET name == SubSeq(css[i].item, 3, Len(css[i].item))
         IN IF IgnoredIn(name, "idents")
            THEN /\ output[i].item = css[i].item
                 /\ LeftAlone(identConversionTable, call.idents, cssEscape(name))
            ELSE /\ TableHas(identConversionTable, cssEscape(name))
                 /\ SubSeq(output[i].item, 3, Len(output[i].item))
                      \in { identConversionTable[cssEscape(name)],
                            cssUnescape(identConversionTable[cssEscape(name)]) }

C17_Witness ==
  /\ props.ignorePatterns = PatternsObject(UndefinedList, << << "^", "b" >> >>)
  /\ call.tables = "omitted"
  /\ pos = 2
  /\ IsSelectorVisit(css[1],
         << Id(x), PseudoClass("hover", << >>), Combinator("child"),
            Class(bt) >>)
  /\ IsIdentVisit(css[2], Marker \o bt)
  /\ IsSelectorVisit(output[1],
         << Id(<< "a" >>), PseudoClass("hover", << >>),
            Combinator("child"), Class(<< "b" >>) >>)
  /\ IsIdentVisit(output[2], Marker \o bt)
  /\ identConversionTable = EmptyTable

\* C18: with a mode other than hash, minimal and debug the invocation ends
\* in the error before the engine makes a visit: nothing is visited, nothing
\* is returned, and both tables are as the caller supplied them.
C18_UnknownModeThrows ==
  props.mode \notin { "hash", "minimal", "debug" }
    => /\ pc \in { "idle", "thrown" }
       /\ pos = 0 /\ css = << >> /\ output = << >> /\ history = << >>
       /\ pc = "thrown"
            => /\ selectorConversionTable = props.conversionTables.selectors
               /\ identConversionTable = props.conversionTables.idents

C18_Witness ==
  /\ pc = "thrown"
  /\ props.mode = "other"
  /\ run = 1
  /\ DOMAIN props.conversionTables.selectors # { }
  /\ selectorConversionTable = props.conversionTables.selectors
  /\ identConversionTable = props.conversionTables.idents

\* The keys of target t the invocation wrote: those the table it was called
\* with did not hold, or held with another value.
Written(t) ==
  { k \in DOMAIN TableOf(t) : k \notin DOMAIN call[t] \/ TableOf(t)[k] # call[t][k] }

\* C19: every entry the invocation writes in the selector table has the
\* escaped text, sigil included, of a class or id it met as its key, and as
\* its value the escaped new name behind the sigil of the key; every entry it
\* writes in the ident table has the escaped marker-stripped name as its key
\* and the escaped new name as its value, neither with a sigil or the marker
\* in front.
C19_EntryShape ==
  (InInvocation /\ props.mode \in { "hash", "minimal", "debug" })
    => LET selectors == NewEntries("selectors")
           idents == NewEntries("idents")
       IN /\ Written("selectors") = { EntryKey(e) : e \in Range(selectors) }
          /\ \A k \in DOMAIN selectors :
               LET e == selectors[k]
                   new == GeneratedName("selectors", e.value, k - 1)
                   value == selectorConversionTable[EntryKey(e)]
               IN /\ Head(e.value) \in { ".", "#" }
                  /\ EntryKey(e) = << "\\", Head(e.value) >> \o cssEscape(Tail(e.value))
                  /\ value = << "\\", Head(e.value) >> \o cssEscape(new)
          /\ Written("idents") = { EntryKey(e) : e \in Range(idents) }
          /\ \A k \in DOMAIN idents :
               LET e == idents[k]
                   new == GeneratedName("idents", e.value, k - 1)
                   value == identConversionTable[EntryKey(e)]
               IN /\ EntryKey(e) = cssEscape(e.value)
                  /\ value = cssEscape(new)
                  /\ \A s \in { EntryKey(e), value } :
                       /\ s # << >>
                       /\ Head(cssUnescape(s)) \notin { ".", "#" }
                       /\ ~IsPrefixSeq(Marker, s)

C19_Witness ==
  /\ props.mode = "minimal"
  /\ props.ignorePatterns = NoIgnore
  /\ props.prefix = AffixUndefined
  /\ call.tables = "omitted"
  /\ pos = 2
  /\ IsSelectorVisit(css[1],
         << Id(x), PseudoClass("hover", << >>), Combinator("child"),
            Class(bt) >>)
  /\ IsIdentVisit(css[2], Marker \o bt)
  /\ selectorConversionTable
       = Table2(<< "\\", "#", "x" >>, << "\\", "#", "a" >>,
                << "\\", ".", "b", "t" >>, << "\\", ".", "b" >>)
  /\ identConversionTable = Table1(bt, << "a" >>)

\* The keys the names of target t met so far can have.
KeysMet(t) == { EntryKey(e) : e \in Range(OfTarget(Encountered(pos), t)) }

\* C20: a table the caller supplies is the table that is returned, with
\* every entry it had at the call and the new ones added; a table the caller
\* omits starts empty and holds nothing but entries of the names this
\* invocation met.
C20_SuppliedExtended ==
  InInvocation
    => /\ \A t \in { "selectors", "idents" } :
            /\ \A k \in DOMAIN call[t] :
                 /\ k \in DOMAIN TableOf(t)
                 /\ TableOf(t)[k] = call[t][k]
            /\ call.tables = "omitted" => DOMAIN TableOf(t) \subseteq KeysMet(t)
       /\ pc = "returned"
            => history[Len(history)].conversionTables
                 = Tables(selectorConversionTable, identConversionTable)

\* The components a later occurrence of the class or id c is given: the value
\* the selector table holds for it, unescaped and read back.
ReadBack(c) ==
  parseSelectorComponent(cssUnescape(selectorConversionTable[KeyOf(c)]))

\* The selector with each non-ignored class and id of it replaced by what a
\* later occurrence of it is given.
AsReadBack(selector) ==
  Flat([n \in DOMAIN selector |->
          IF selector[n].type \in { "id", "class" } /\ ~IgnoredName(selector[n])
          THEN ReadBack(selector[n]) ELSE << selector[n] >>])

\* C21: within one invocation every occurrence of a non-ignored class or id
\* at the top level of a selector, the first one (name generated, component
\* renamed) as well as a later one (table hit, value read back), is emitted
\* as the same components, in every mode and with every prefix and suffix.
C21_SameEveryOccurrence ==
  \A i \in SelectorVisits :
    NoNesting(css[i].item) => output[i].item = AsReadBack(css[i].item)

\* C22: within one invocation every occurrence of a non-ignored custom
\* property is given the same token: what DashedIdent returns when the name
\* is new to the table is what it returns for the name afterwards, with every
\* prefix and suffix.
C22_SameIdentToken ==
  \A i, j \in IdentVisits :
    (css[i].item = css[j].item /\ ~IgnoredIdent(css[i].item))
      => output[i].item = output[j].item

\* No two keys of the table map to one value; among the keys of the selector
\* table only those of one sigil are compared.
NoSharedValue(table, sameKind(_, _)) ==
  \A k1, k2 \in DOMAIN table :
    (k1 # k2 /\ sameKind(k1, k2)) => table[k1] # table[k2]

SameSigil(k1, k2) == cssUnescape(k1)[1] = cssUnescape(k2)[1]

AnyTwo(k1, k2) == TRUE

\* C23: in minimal mode, through every sequence of invocations of which the
\* first starts from empty tables and each later one is given the tables the
\* one before returned, on the same stylesheet or on one with more rules, no
\* two keys of the selector table with the same sigil and no two keys of the
\* ident table map to the same value.
C23_NoSharedName ==
  (props.mode = "minimal" /\ InInvocation /\ call.tables \in { "omitted", "reused" })
    => /\ NoSharedValue(selectorConversionTable, SameSigil)
       /\ NoSharedValue(identConversionTable, AnyTwo)

RECURSIVE WithoutIgnored(_)
RECURSIVE WithoutIgnoredEach(_)
\* The selector with every ignored class and id taken out, at the top level
\* and in the nested lists.
WithoutIgnored(selector) ==
  IF selector = << >> THEN << >>
  ELSE LET c == Head(selector)
       IN (IF c.type \in { "id", "class" }
           THEN (IF IgnoredName(c) THEN << >> ELSE << c >>)
           ELSE << [c EXCEPT !.selectors = WithoutIgnoredEach(c.selectors)] >>)
          \o WithoutIgnored(Tail(selector))

WithoutIgnoredEach(selectors) ==
  IF selectors = << >> THEN << >>
  ELSE << WithoutIgnored(Head(selectors)) >> \o WithoutIgnoredEach(Tail(selectors))

\* C24: in minimal mode an ignored class or id takes no name: the Selector
\* callback leaves the selector table and the counter of the selector closure
\* as it leaves them when it is called, on the same table and counter, on the
\* selector with every ignored class and id taken out.
C24_IgnoredTakesNoName ==
  [][(VisitStep /\ css'[pos'].visit = "Selector" /\ props.mode = "minimal")
       => \E f \in { ClosureOf("selectors") } :
            \E r \in { Selector(WithoutIgnored(css'[pos'].item),
                                 WalkState(selectorConversionTable,
                                           minimalCounter[f])) } :
              /\ ~r.st.thrown
              /\ selectorConversionTable' = r.st.table
              /\ minimalCounter'[f] = r.st.counter]_vars

C24_Witness ==
  /\ props.mode = "minimal" /\ call.tables = "omitted"
  /\ props.ignorePatterns = PatternsArray(<< << "^", "b" >> >>)
  /\ pos = 2
  /\ IsSelectorVisit(css[1],
         << Id(x), PseudoClass("hover", << >>), Combinator("child"), Class(bt) >>)
  /\ IsSelectorVisit(css[2],
         << Class(x), PseudoClass("not", << << Class(y) >>, << Class(bt) >> >>) >>)
  /\ IsSelectorVisit(output[1],
         << Id(<< "a" >>), PseudoClass("hover", << >>),
            Combinator("child"), Class(bt) >>)
  /\ IsSelectorVisit(output[2],
         << Class(<< "b" >>),
           PseudoClass("not", << << Class(<< "c" >>) >>, << Class(bt) >> >>) >>)
  /\ minimalCounter["selectorConvertFunc"] = 3
  /\ KeyOf(Class(bt)) \notin DOMAIN selectorConversionTable

NthNodes(selector) ==
  SelectSeq(selector, LAMBDA c : c.type = "pseudo-class" /\ c.kind \in NthKinds)

\* C25: the walk of a selector leaves every nth-child and nth-last-child
\* node one component of the result, at its position and of its kind, with
\* an "of" list of the length it had; every non-ignored class and id of the
\* "of" list is a key of the selector table afterwards; a node without an
\* "of" list is returned as it is, and the walk writes no key but keys of
\* the classes and ids of the selector, so none for such a node.
C25_NthForEffect ==
  [][(VisitStep /\ css'[pos'].visit = "Selector")
       => LET sel == css'[pos'].item
              out == output'[pos'].item
              in == NthNodes(sel)
              res == NthNodes(out)
              added ==
                { k \in DOMAIN selectorConversionTable' :
                    \/ k \notin DOMAIN selectorConversionTable
                    \/ selectorConversionTable'[k] # selectorConversionTable[k] }
          IN /\ Len(res) = Len(in)
             /\ \A m \in DOMAIN in :
                  /\ res[m].kind = in[m].kind
                  /\ Len(res[m].selectors) = Len(in[m].selectors)
                  /\ in[m].selectors = << >> => res[m] = in[m]
                  /\ \A c \in Range(NamesOfEach(in[m].selectors)) :
                       ~IgnoredName(c) => KeyOf(c) \in DOMAIN selectorConversionTable'
             /\ Len(out) = Len(sel)
                  => \A n \in DOMAIN sel :
                       (sel[n].type = "pseudo-class" /\ sel[n].kind \in NthKinds)
                         => /\ out[n].type = "pseudo-class"
                            /\ out[n].kind = sel[n].kind
             /\ added \subseteq KeysOfNames(sel)]_vars

C25_Witness ==
  /\ props.mode = "minimal"
  /\ TableHas(call.selectors, KeyOf(Class(x))) /\ SeededCompound(Class(x))
  /\ pos = 1
  /\ IsSelectorVisit(css[1], NestedSelector)
  /\ output[1].visit = "Selector"
  /\ SubSeq(output[1].item, 1, Len(NthSelector))
       = << Type(x),
            PseudoClass("nth-child", << << Class(x) >>, << Class(<< "a" >>) >> >>),
            PseudoClass("nth-last-child", << >>) >>
  /\ DOMAIN selectorConversionTable = { KeyOf(Class(x)), KeyOf(Class(y)) }
  /\ selectorConversionTable[KeyOf(Class(x))] = call.selectors[KeyOf(Class(x))]

\* A class or id of the nested selectors of the node is mapped by the table
\* to a value that reads back as several components.
Expands(node, table) ==
  \E c \in Range(NamesOfEach(node.selectors)) :
    /\ ~IgnoredName(c)
    /\ TableHas(table, KeyOf(c))
    /\ Len(parseSelectorComponent(cssUnescape(table[KeyOf(c)]))) > 1

IsListNode(c) == c.type = "pseudo-class" /\ c.kind \in ListKinds

\* C26: the walk of a selector keeps a not / where / is / any / has node as
\* one component, with a nested list of the length it had, when none of its
\* nested classes and ids expands into several components; a node of which
\* one does is not kept, and the components the expanding names read back as
\* stand in the result in its place.
C26_KeptOrFlattened ==
  [][(VisitStep /\ css'[pos'].visit = "Selector")
       => LET sel == css'[pos'].item
              out == output'[pos'].item
              kept == SelectSeq(sel, LAMBDA c :
                        IsListNode(c) /\ ~Expands(c, selectorConversionTable))
              res == SelectSeq(out, IsListNode)
          IN /\ Len(res) = Len(kept)
             /\ \A m \in DOMAIN kept :
                  /\ res[m].kind = kept[m].kind
                  /\ Len(res[m].selectors) = Len(kept[m].selectors)
             /\ \A n \in DOMAIN sel :
                  (IsListNode(sel[n]) /\ Expands(sel[n], selectorConversionTable))
                    => \A c \in Range(NamesOfEach(sel[n].selectors)) :
                         (~IgnoredName(c) /\ TableHas(selectorConversionTable, KeyOf(c)))
                           => \A part \in Range(parseSelectorComponent(
                                 cssUnescape(selectorConversionTable[KeyOf(c)]))) :
                                Count(out, part) >= 1]_vars

\* The class or id component has no sigil+name text form.
Unstringifiable(c) == stringifySelectorComponent(c) = << >>

\* The classes and ids of the selector that a left-to-right, depth-first
\* reading meets before the first one without a text form.
BeforeUnstringifiable(selector) ==
  LET names == NamesOf(selector)
      first == CHOOSE k \in DOMAIN names :
                 /\ Unstringifiable(names[k])
                 /\ \A j \in 1..(k - 1) : ~Unstringifiable(names[j])
  IN SubSeq(names, 1, first - 1)

\* C27: the Selector callback ends in the error exactly when the selector
\* holds, at any depth, a class or id without a text form; the step hands
\* nothing back and writes no key but keys of the classes and ids that come
\* before that component, each of which was handled; and after the error
\* the invocation takes no further step: no later selector or custom
\* property is visited and nothing is returned.
C27_UnstringifiableAborts ==
  [][/\ pc # "thrown"
     /\ (pc = "visiting" /\ pc' = "thrown")
          => LET sel == css'[pos + 1].item
                 before == BeforeUnstringifiable(sel)
                 added ==
                   { k \in DOMAIN selectorConversionTable' :
                       \/ k \notin DOMAIN selectorConversionTable
                       \/ selectorConversionTable'[k] # selectorConversionTable[k] }
             IN /\ \E c \in Range(NamesOf(sel)) : Unstringifiable(c)
                /\ pos' = pos /\ output' = output /\ history' = history
                /\ identConversionTable' = identConversionTable
                /\ added \subseteq { KeyOf(c) : c \in Range(before) }
                /\ \A c \in Range(before) :
                     ~IgnoredName(c) => TableHas(selectorConversionTable', KeyOf(c))
     /\ (VisitStep /\ css'[pos'].visit = "Selector")
          => \A c \in Range(NamesOf(css'[pos'].item)) : ~Unstringifiable(c)]_vars

C27_Witness ==
  /\ pc = "thrown"
  /\ props.mode = "minimal" /\ props.ignorePatterns = NoIgnore
  /\ call.tables = "omitted"
  /\ pos = 1 /\ Len(css) = 2
  /\ IsSelectorVisit(css[1], << Class(x) >>)
  /\ IsSelectorVisit(css[2],
         << Class(y), PseudoClass("not", << << Class(NoName) >> >>), Class(bt) >>)
  /\ Len(output) = 1
  /\ history = << >>
  /\ selectorConversionTable
       = Table2(KeyOf(Class(x)), << "\\", ".", "a" >>,
                KeyOf(Class(y)), << "\\", ".", "b" >>)

\* The component is of a type, or is a pseudo-class of a kind, that the
\* walker has no case for.
Unhandled(c) ==
  IF c.type = "pseudo-class"
  THEN c.kind \notin (PassThroughKinds \cup NthKinds \cup ListKinds \cup { "host" })
  ELSE c.type \notin (PassThroughTypes \cup { "id", "class" })

\* C28: the walk of a selector returns a component of a type and a
\* pseudo-class of a kind it has no case for as it is, one component at its
\* position; it writes no key for it, goes on to the components after it,
\* whose non-ignored classes and ids are in the selector table afterwards;
\* and the callback ends in an error only for a class or id without a text
\* form, never for such a component.
C28_UnhandledPassesThrough ==
  [][/\ (VisitStep /\ css'[pos'].visit = "Selector")
          => LET sel == css'[pos'].item
                 out == output'[pos'].item
                 added ==
                   { k \in DOMAIN selectorConversionTable' :
                       \/ k \notin DOMAIN selectorConversionTable
                       \/ selectorConversionTable'[k] # selectorConversionTable[k] }
             IN /\ \A n \in DOMAIN sel :
                     Unhandled(sel[n])
                       => /\ Count(out, sel[n]) >= Count(sel, sel[n])
                          /\ Len(out) = Len(sel) => out[n] = sel[n]
                /\ added \subseteq KeysOfNames(sel)
                /\ \A c \in Range(NamesOf(sel)) :
                     ~IgnoredName(c) => TableHas(selectorConversionTable', KeyOf(c))
     /\ (pc = "visiting" /\ pc' = "thrown")
          => \E c \in Range(NamesOf(css'[pos + 1].item)) : Unstringifiable(c)]_vars

C28_Witness ==
  /\ pc = "visiting"
  /\ props.mode = "minimal" /\ call.tables = "omitted"
  /\ props.prefix = AffixUndefined
  /\ pos = 1
  /\ IsSelectorVisit(css[1], NestedSelector)
  /\ output[1].visit = "Selector"
  /\ SubSeq(output[1].item, Len(NthSelector) + 1,
            Len(NthSelector) + Len(UnhandledSelector))
       = << Plain("future"), PseudoClass("lang", << >>),
            PseudoClass("is", << << Class(<< "a" >>) >> >>),
            PseudoClass("where", << << Class(<< "a" >>) >> >>),
            PseudoClass("any", << << Class(<< "a" >>) >> >>),
            PseudoClass("has", << << Class(<< "a" >>) >> >>) >>
  /\ selectorConversionTable
       = Table2(KeyOf(Class(x)), << "\\", ".", "a" >>,
                KeyOf(Class(y)), << "\\", ".", "b" >>)

RECURSIVE EncounteredIn(_, _)
\* The non-ignored names of the first i visits of sheet, in the order met.
EncounteredIn(sheet, i) ==
  IF i = 0 THEN << >> ELSE EncounteredIn(sheet, i - 1) \o VisitEntries(sheet[i])

\* The keys the names of target t in the first n visits of sheet can have.
KeysMetIn(sheet, n, t) ==
  { EntryKey(e) : e \in Range(OfTarget(EncounteredIn(sheet, n), t)) }

\* The table holds the keys of seeded and one key for every distinct
\* non-ignored name of target t in the first n visits of sheet, and no other.
SeededPlusMet(table, seeded, sheet, n, t) ==
  DOMAIN table = DOMAIN seeded \cup KeysMetIn(sheet, n, t)

\* The conversion calls a visit makes: one for every occurrence of a
\* non-ignored class or id of a selector, at the top level or nested, and
\* one for a custom property that is not ignored.
ConversionCalls(e) == Len(VisitEntries(e))

\* C29: no step of an invocation, and no invocation that is given the tables
\* of the one before, takes a key out of a table; a visit adds no more keys
\* than it makes conversion calls, and to the table of its target only; and
\* through the invocation, up to what it returns, the selector table holds
\* exactly the keys it was called with and one key for every distinct
\* non-ignored class or id met, nested ones included, the ident table
\* exactly the keys it was called with and one key for every distinct
\* non-ignored custom property.
C29_TableGrowth ==
  [][/\ KeepsTables
          => /\ DOMAIN selectorConversionTable \subseteq DOMAIN selectorConversionTable'
             /\ DOMAIN identConversionTable \subseteq DOMAIN identConversionTable'
     /\ VisitStep
          => LET e == css'[pos']
                 newSelectors ==
                   DOMAIN selectorConversionTable' \ DOMAIN selectorConversionTable
                 newIdents == DOMAIN identConversionTable' \ DOMAIN identConversionTable
             IN IF e.visit = "Selector"
                THEN /\ Cardinality(newSelectors) <= ConversionCalls(e)
                     /\ identConversionTable' = identConversionTable
                ELSE /\ Cardinality(newIdents) <= ConversionCalls(e)
                     /\ ConversionCalls(e) <= 1
                     /\ selectorConversionTable' = selectorConversionTable
     /\ pc' \in { "visiting", "returned" }
          => /\ SeededPlusMet(selectorConversionTable', call'.selectors,
                              css', pos', "selectors")
             /\ SeededPlusMet(identConversionTable', call'.idents,
                              css', pos', "idents")
     /\ pc' = "returned"
          => /\ DOMAIN history'[Len(history')].conversionTables.selectors
                  = DOMAIN selectorConversionTable'
             /\ DOMAIN history'[Len(history')].conversionTables.idents
                  = DOMAIN identConversionTable']_vars

C29_Witness ==
  /\ pc = "returned"
  /\ props.mode = "minimal"
  /\ props.ignorePatterns = PatternsArray(<< << "^", "b" >> >>)
  /\ call.tables = "supplied"
  /\ DOMAIN call.selectors = { KeyOf(Class(bt)), KeyOf(Class(x)) }
  /\ DOMAIN call.idents = { x }
  /\ pos = 2
  /\ IsSelectorVisit(css[1],
         << Class(x), PseudoClass("not", << << Class(y) >>, << Class(bt) >> >>) >>)
  /\ IsIdentVisit(css[2], Marker \o x)
  /\ DOMAIN selectorConversionTable
       = { KeyOf(Class(bt)), KeyOf(Class(x)), KeyOf(Class(y)) }
  /\ DOMAIN identConversionTable = { x }
  /\ DOMAIN history[Len(history)].conversionTables.selectors
       = DOMAIN selectorConversionTable

\* C30: when an invocation that was given tables ends in an error, of an
\* unknown mode or of a class or id without a text form, the tables hold
\* exactly the entries they held at the call.
C30_ErrorLeavesTables ==
  (pc = "thrown" /\ call.tables \in { "supplied", "reused" })
    => /\ selectorConversionTable = call.selectors
       /\ identConversionTable = call.idents
====
